---- MODULE Spec2Model ----
(***************************************************************************)
(* Energy Provider Management System: the Customer / Payment domain model  *)
(* and the EnergySystem operations that drive it.                          *)
(*                                                                         *)
(* Money is kept in cents and energy in whole units, so a rate of 0.18     *)
(* dollars per unit is 18 and 300 units billed at it is 5400.  Time is the *)
(* time_t clock in seconds.  Bill indexes are 0-based as in the source;    *)
(* the sequences that hold the vectors are 1-based.  The doubles of the    *)
(* source are exact integers here.  The definitions follow                 *)
(* energyprovider2.0.cxx; energyprovider.cxx has the same Payment and      *)
(* Customer operations under longer field names.                           *)
(***************************************************************************)
EXTENDS Integers, Sequences, FiniteSets, TLC

VARIABLES customers, provinces, trades, now, last, episode, listed

vars == <<customers, provinces, trades, now, last, episode, listed>>

(***************************************************************************)
(* Bounds of the model.                                                    *)
(***************************************************************************)
MaxBills == 2       \* bills per customer
MaxMaint == 1       \* maintenance records per customer
MaxDays == 31       \* the clock stops at MaxDays days

(***************************************************************************)
(* Program constants.                                                      *)
(***************************************************************************)
SecondsPerDay == 60 * 60 * 24
OverdueDays == 30

EnergyType == {"CRUDE_OIL", "SOLAR", "NUCLEAR", "NATURAL_GAS"}

\* EnergySystem::EnergySystem: price per unit, in cents
rates ==
  [t \in EnergyType |->
     CASE t = "CRUDE_OIL" -> 125
       [] t = "SOLAR" -> 18
       [] t = "NUCLEAR" -> 22
       [] t = "NATURAL_GAS" -> 85]

(***************************************************************************)
(* Inputs.                                                                 *)
(***************************************************************************)
BillTypes == {"SOLAR"}
BillRates == {rates[t] : t \in BillTypes}
Allocs == {1}
UseAmounts == {0, 1, 2}
PayIndexes == (0 - 1) .. MaxBills
\* tendered amounts below, at and above the amounts a bill can have
PayAmounts == UNION {{r - 1, r, 2 * r} : r \in BillRates}
\* the clock jumps to the overdue boundary, half a day past it, a day past it
ClockSteps == {OverdueDays * SecondsPerDay,
               OverdueDays * SecondsPerDay + SecondsPerDay \div 2,
               (OverdueDays + 1) * SecondsPerDay}

(***************************************************************************)
(* Payment                                                                 *)
(***************************************************************************)
\* double -> int conversion truncates toward zero
TruncDiv(a, b) == IF a >= 0 THEN a \div b ELSE 0 - ((0 - a) \div b)

\* Payment::Payment(double amt), built when the clock reads t
Payment(amt, t) == [amount |-> amt, date |-> t, isPaid |-> FALSE]

getDaysSince(p, t) == TruncDiv(t - p.date, SecondsPerDay)

\* variant: overdue from the thirtieth day on
isOverdueFromThirty(p, t) == getDaysSince(p, t) >= OverdueDays /\ ~p.isPaid

isOverdue(p, t) == getDaysSince(p, t) > OverdueDays /\ ~p.isPaid

(***************************************************************************)
(* Customer                                                                *)
(***************************************************************************)
Customer(id, name, prov, mail, addr, type, alloc) ==
  [id |-> id, name |-> name, province |-> prov, email |-> mail,
   address |-> addr, energyType |-> type, allocated |-> alloc, used |-> 0,
   payments |-> <<>>, reminderSent |-> FALSE, maintenance |-> <<>>]

\* variant: no admission check
useEnergyUnchecked(c, amt) == [c |-> [c EXCEPT !.used = @ + amt], ret |-> TRUE]

\* variant: a request for exactly what is left is turned down
useEnergyStrict(c, amt) ==
  IF amt < c.allocated - c.used
    THEN [c |-> [c EXCEPT !.used = @ + amt], ret |-> TRUE]
    ELSE [c |-> c, ret |-> FALSE]

\* each operation yields the customer after the call and the value returned
useEnergy(c, amt) ==
  IF amt <= c.allocated - c.used
    THEN [c |-> [c EXCEPT !.used = @ + amt], ret |-> TRUE]
    ELSE [c |-> c, ret |-> FALSE]

\* variant: used is reset before the amount is computed
createBillAfterReset(c, rate, t) ==
  [c EXCEPT !.payments = Append(@, Payment(0 * rate, t)), !.used = 0]

\* variant: the new bill goes to the front of the history
createBillAtFront(c, rate, t) ==
  [c EXCEPT !.payments = <<Payment(c.used * rate, t)>> \o @, !.used = 0]

\* variant: used is not reset
createBillKeepsUsed(c, rate, t) ==
  [c EXCEPT !.payments = Append(@, Payment(c.used * rate, t))]

createBill(c, rate, t) ==
  [c EXCEPT !.payments = Append(@, Payment(c.used * rate, t)), !.used = 0]

\* variant: the exact amount is not enough
makePaymentStrict(c, index, amt) ==
  IF index >= 0 /\ index < Len(c.payments) /\ amt > c.payments[index + 1].amount
    THEN [c |-> [c EXCEPT !.payments[index + 1].isPaid = TRUE,
                          !.reminderSent = FALSE],
          ret |-> TRUE]
    ELSE [c |-> c, ret |-> FALSE]

\* variant: isPaid is assigned the outcome of the comparison
makePaymentAssign(c, index, amt) ==
  IF index >= 0 /\ index < Len(c.payments)
    THEN IF amt >= c.payments[index + 1].amount
      THEN [c |-> [c EXCEPT !.payments[index + 1].isPaid = TRUE,
                            !.reminderSent = FALSE],
            ret |-> TRUE]
      ELSE [c |-> [c EXCEPT !.payments[index + 1].isPaid = FALSE], ret |-> FALSE]
    ELSE [c |-> c, ret |-> FALSE]

\* variant: a successful payment leaves reminderSent as it is
makePaymentKeepsLatch(c, index, amt) ==
  IF index >= 0 /\ index < Len(c.payments) /\ amt >= c.payments[index + 1].amount
    THEN [c |-> [c EXCEPT !.payments[index + 1].isPaid = TRUE], ret |-> TRUE]
    ELSE [c |-> c, ret |-> FALSE]

\* variant: reminderSent is cleared before the request is validated
makePaymentClearsFirst(c, index, amt) ==
  IF index >= 0 /\ index < Len(c.payments) /\ amt >= c.payments[index + 1].amount
    THEN [c |-> [c EXCEPT !.payments[index + 1].isPaid = TRUE,
                          !.reminderSent = FALSE],
          ret |-> TRUE]
    ELSE [c |-> [c EXCEPT !.reminderSent = FALSE], ret |-> FALSE]

\* variant: reminderSent is cleared only when the bill was unpaid
makePaymentClearsOnUnpaid(c, index, amt) ==
  IF index >= 0 /\ index < Len(c.payments) /\ amt >= c.payments[index + 1].amount
    THEN [c |-> [c EXCEPT !.payments[index + 1].isPaid = TRUE,
                          !.reminderSent = IF c.payments[index + 1].isPaid
                                             THEN @ ELSE FALSE],
          ret |-> TRUE]
    ELSE [c |-> c, ret |-> FALSE]

makePayment(c, index, amt) ==
  IF index >= 0 /\ index < Len(c.payments) /\ amt >= c.payments[index + 1].amount
    THEN [c |-> [c EXCEPT !.payments[index + 1].isPaid = TRUE,
                          !.reminderSent = FALSE],
          ret |-> TRUE]
    ELSE [c |-> c, ret |-> FALSE]

addMaintenance(c, desc, cost, t) ==
  [c EXCEPT !.maintenance = Append(@, [date |-> t, desc |-> desc, cost |-> cost])]

hasOverdue(c, t) == \E i \in 1 .. Len(c.payments) : isOverdue(c.payments[i], t)

\* variant: paid bills are counted too
getTotalOwedAll(c) ==
  LET F[i \in 0 .. Len(c.payments)] ==
        IF i = 0 THEN 0 ELSE F[i - 1] + c.payments[i].amount
  IN F[Len(c.payments)]

getTotalOwed(c) ==
  LET F[i \in 0 .. Len(c.payments)] ==
        IF i = 0 THEN 0
        ELSE F[i - 1] + (IF ~c.payments[i].isPaid THEN c.payments[i].amount ELSE 0)
  IN F[Len(c.payments)]

\* variant: every unpaid bill is listed, overdue or not
ReminderLinesUnpaid(c, t) ==
  LET F[i \in 0 .. Len(c.payments)] ==
        IF i = 0 THEN <<>>
        ELSE IF ~c.payments[i].isPaid
          THEN Append(F[i - 1],
                      [date |-> c.payments[i].date,
                       amount |-> c.payments[i].amount,
                       daysOverdue |-> getDaysSince(c.payments[i], t) - OverdueDays])
          ELSE F[i - 1]
  IN F[Len(c.payments)]

\* the lines of the e-mail, one per overdue bill, in bill order
ReminderLines(c, t) ==
  LET F[i \in 0 .. Len(c.payments)] ==
        IF i = 0 THEN <<>>
        ELSE IF isOverdue(c.payments[i], t)
          THEN Append(F[i - 1],
                      [date |-> c.payments[i].date,
                       amount |-> c.payments[i].amount,
                       daysOverdue |-> getDaysSince(c.payments[i], t) - OverdueDays])
          ELSE F[i - 1]
  IN F[Len(c.payments)]

\* variant: reminderSent is set but never consulted
sendReminderNoLatch(c, t) ==
  IF hasOverdue(c, t)
    THEN [c |-> [c EXCEPT !.reminderSent = TRUE],
          ret |-> <<[to |-> c.email, name |-> c.name]>> \o ReminderLines(c, t)
                    \o <<"Please pay ASAP">>]
    ELSE [c |-> c, ret |-> <<>>]

\* the text is a sequence: the heading, the bill lines, the closing; "" is <<>>
sendReminder(c, t) ==
  IF hasOverdue(c, t) /\ ~c.reminderSent
    THEN [c |-> [c EXCEPT !.reminderSent = TRUE],
          ret |-> <<[to |-> c.email, name |-> c.name]>> \o ReminderLines(c, t)
                    \o <<"Please pay ASAP">>]
    ELSE [c |-> c, ret |-> <<>>]

(***************************************************************************)
(* EnergySystem                                                            *)
(***************************************************************************)
\* provinces maps a province to the positions (0-based) of its customers;
\* a province without customers has no entry
addCustomerOneBased(cs, provs, c) ==
  [customers |-> Append(cs, c),
   provinces |->
     [p \in DOMAIN provs \cup {c.province} |->
        IF p = c.province
          THEN (IF p \in DOMAIN provs THEN provs[p] ELSE <<>>) \o <<Len(cs) + 1>>
          ELSE provs[p]]]

addCustomer(cs, provs, c) ==
  [customers |-> Append(cs, c),
   provinces |->
     [p \in DOMAIN provs \cup {c.province} |->
        IF p = c.province
          THEN (IF p \in DOMAIN provs THEN provs[p] ELSE <<>>) \o <<Len(cs) + 1 - 1>>
          ELSE provs[p]]]

\* the customers a billing run bills
Billed(cs) == {i \in DOMAIN cs : cs[i].used > 0}

doBillingEveryone(cs, t) ==
  [i \in DOMAIN cs |-> createBill(cs[i], rates[cs[i].energyType], t)]

doBilling(cs, t) ==
  [i \in DOMAIN cs |->
     IF cs[i].used > 0 THEN createBill(cs[i], rates[cs[i].energyType], t)
     ELSE cs[i]]

\* the run of the older source file: sendReminder is called for the
\* customers that have an overdue bill only
sendRemindersGuarded(cs, t) ==
  LET F[i \in 0 .. Len(cs)] ==
        IF i = 0 THEN <<>>
        ELSE IF hasOverdue(cs[i], t) /\ sendReminder(cs[i], t).ret # <<>>
          THEN Append(F[i - 1], [name |-> cs[i].name, id |-> cs[i].id])
          ELSE F[i - 1]
  IN [cs |-> [i \in DOMAIN cs |->
                IF hasOverdue(cs[i], t) THEN sendReminder(cs[i], t).c ELSE cs[i]],
      printed |-> F[Len(cs)]]

\* variant: the run stops at the first customer it has reminded
sendRemindersUntilFirst(cs, t) ==
  LET first == {i \in DOMAIN cs : sendReminder(cs[i], t).ret # <<>>}
      stop == IF first = {} THEN Len(cs)
              ELSE CHOOSE i \in first : \A j \in first : i <= j
  IN [cs |-> [i \in DOMAIN cs |->
                IF i <= stop THEN sendReminder(cs[i], t).c ELSE cs[i]],
      printed |-> IF first = {} THEN <<>>
                  ELSE <<[name |-> cs[stop].name, id |-> cs[stop].id]>>]

\* the customers after the run and the "Sent reminder to" lines it printed
sendReminders(cs, t) ==
  LET F[i \in 0 .. Len(cs)] ==
        IF i = 0 THEN <<>>
        ELSE IF sendReminder(cs[i], t).ret # <<>>
          THEN Append(F[i - 1], [name |-> cs[i].name, id |-> cs[i].id])
          ELSE F[i - 1]
  IN [cs |-> [i \in DOMAIN cs |-> sendReminder(cs[i], t).c],
      printed |-> F[Len(cs)]]

\* the customers with an overdue bill, as positions of customers, in the
\* order of the loop
getOverdueCustomersAnyUnpaid(cs, t) ==
  LET F[i \in 0 .. Len(cs)] ==
        IF i = 0 THEN <<>>
        ELSE IF \E k \in DOMAIN cs[i].payments : ~cs[i].payments[k].isPaid
          THEN Append(F[i - 1], i)
          ELSE F[i - 1]
  IN F[Len(cs)]

getOverdueCustomers(cs, t) ==
  LET F[i \in 0 .. Len(cs)] ==
        IF i = 0 THEN <<>>
        ELSE IF hasOverdue(cs[i], t) THEN Append(F[i - 1], i)
          ELSE F[i - 1]
  IN F[Len(cs)]

\* strings that are searched are sequences of characters; npos is the value
\* std::string::find returns when there is no occurrence
npos == 0 - 1

find(s, q) ==
  LET hits == {k \in 0 .. Len(s) - Len(q) : SubSeq(s, k + 1, k + Len(q)) = q}
  IN IF hits = {} THEN npos ELSE CHOOSE k \in hits : \A j \in hits : k <= j

DigitChars == <<"0", "1", "2", "3", "4", "5", "6", "7", "8", "9">>

RECURSIVE to_string(_)
to_string(n) ==
  IF n < 0 THEN <<"-">> \o to_string(0 - n)
  ELSE IF n < 10 THEN <<DigitChars[n + 1]>>
  ELSE to_string(n \div 10) \o <<DigitChars[(n % 10) + 1]>>

\* the matching customers, as positions of customers, in the order of the loop
findCustomersAnyProvince(cs, query, prov) ==
  LET F[i \in 0 .. Len(cs)] ==
        IF i = 0 THEN <<>>
        ELSE IF \/ find(to_string(cs[i].id), query) # npos
                \/ find(cs[i].name, query) # npos
                \/ find(cs[i].email, query) # npos
          THEN Append(F[i - 1], i)
          ELSE F[i - 1]
  IN F[Len(cs)]

findCustomersNoEmail(cs, query, prov) ==
  LET F[i \in 0 .. Len(cs)] ==
        IF i = 0 THEN <<>>
        ELSE IF prov # "" /\ cs[i].province # prov THEN F[i - 1]
        ELSE IF \/ find(to_string(cs[i].id), query) # npos
                \/ find(cs[i].name, query) # npos
          THEN Append(F[i - 1], i)
          ELSE F[i - 1]
  IN F[Len(cs)]

findCustomers(cs, query, prov) ==
  LET F[i \in 0 .. Len(cs)] ==
        IF i = 0 THEN <<>>
        ELSE IF prov # "" /\ cs[i].province # prov THEN F[i - 1]
        ELSE IF \/ find(to_string(cs[i].id), query) # npos
                \/ find(cs[i].name, query) # npos
                \/ find(cs[i].email, query) # npos
          THEN Append(F[i - 1], i)
          ELSE F[i - 1]
  IN F[Len(cs)]

\* a trade: quantity in whole units, price in cents per unit
ImportExport(type, q, p, imp, t) ==
  [type |-> type, quantity |-> q, price |-> p, isImport |-> imp, date |-> t]

getValueOfQuantity(t) == t.quantity

getValue(t) == t.quantity * t.price

\* m[k] += v on a map whose missing entries count as 0
AddTo(m, k, v) ==
  [x \in DOMAIN m \cup {k} |->
     (IF x \in DOMAIN m THEN m[x] ELSE 0) + (IF x = k THEN v ELSE 0)]

\* the import/export section of the monthly report
ImportExportSummary(ts) ==
  LET F[n \in 0 .. Len(ts)] ==
        IF n = 0
          THEN [imports |-> 0, exports |-> 0,
                importsByType |-> <<>>, exportsByType |-> <<>>]
        ELSE IF ts[n].isImport
          THEN [F[n - 1] EXCEPT
                  !.imports = @ + getValue(ts[n]),
                  !.importsByType = AddTo(@, ts[n].type, getValue(ts[n]))]
          ELSE [F[n - 1] EXCEPT
                  !.exports = @ + getValue(ts[n]),
                  !.exportsByType = AddTo(@, ts[n].type, getValue(ts[n]))]
      sums == F[Len(ts)]
  IN [imports |-> sums.imports,
      exports |-> sums.exports,
      net |-> sums.imports - sums.exports,
      importsByType |-> sums.importsByType,
      exportsByType |-> sums.exportsByType]

\* n / d * 100 in floating point: a number when d is not 0, and no number
\* (nan or an infinity) when d is 0; the number is kept as the exact
\* fraction num / den
Percent(n, d) == [defined |-> d # 0, num |-> n * 100, den |-> d]

\* the overall section of the monthly report
OverallStats(cs, t) ==
  LET F[i \in 0 .. Len(cs)] ==
        IF i = 0 THEN [totalUnpaid |-> 0, overdueCount |-> 0]
        ELSE [totalUnpaid |-> F[i - 1].totalUnpaid + getTotalOwed(cs[i]),
              overdueCount |-> F[i - 1].overdueCount
                                 + (IF hasOverdue(cs[i], t) THEN 1 ELSE 0)]
      sums == F[Len(cs)]
  IN [customers |-> Len(cs),
      totalUnpaid |-> sums.totalUnpaid,
      overdueCount |-> sums.overdueCount,
      overduePercent |-> Percent(sums.overdueCount, Len(cs))]

\* variant: a province reports the customers of the whole system
ProvinceStatsOfAll(cs, provs, t) ==
  [prov \in DOMAIN provs |->
     [customers |-> Len(provs[prov]),
      allocated |-> 0, used |-> 0,
      unpaid |-> OverallStats(cs, t).totalUnpaid,
      overdue |-> OverallStats(cs, t).overdueCount,
      usedPercent |-> Percent(0, 0),
      overduePercent |-> Percent(OverallStats(cs, t).overdueCount, Len(provs[prov]))]]

\* the province section of the monthly report: one entry for each key of
\* provinces, summed over the positions in its bucket
ProvinceStats(cs, provs, t) ==
  [prov \in DOMAIN provs |->
     LET ids == provs[prov]
         F[n \in 0 .. Len(ids)] ==
           IF n = 0 THEN [allocated |-> 0, used |-> 0, unpaid |-> 0, overdue |-> 0]
           ELSE LET c == cs[ids[n] + 1]
                IN [allocated |-> F[n - 1].allocated + c.allocated,
                    used |-> F[n - 1].used + c.used,
                    unpaid |-> F[n - 1].unpaid + getTotalOwed(c),
                    overdue |-> F[n - 1].overdue + (IF hasOverdue(c, t) THEN 1 ELSE 0)]
         sums == F[Len(ids)]
     IN [customers |-> Len(ids),
         allocated |-> sums.allocated,
         used |-> sums.used,
         unpaid |-> sums.unpaid,
         overdue |-> sums.overdue,
         usedPercent |-> Percent(sums.used, sums.allocated),
         overduePercent |-> Percent(sums.overdue, Len(ids))]]

\* what showStats prints
showStats(cs, provs, ts, t) ==
  LET F[i \in 0 .. Len(cs)] ==
        IF i = 0 THEN [overdueCount |-> 0, overdueAmount |-> 0]
        ELSE IF hasOverdue(cs[i], t)
          THEN [overdueCount |-> F[i - 1].overdueCount + 1,
                overdueAmount |-> F[i - 1].overdueAmount + getTotalOwed(cs[i])]
          ELSE F[i - 1]
      sums == F[Len(cs)]
  IN [customers |-> Len(cs),
      byProvince |-> [prov \in DOMAIN provs |-> Len(provs[prov])],
      overdueCount |-> sums.overdueCount,
      overduePercent |-> Percent(sums.overdueCount, Len(cs)),
      overdueAmount |-> sums.overdueAmount,
      imports |-> ImportExportSummary(ts).imports,
      exports |-> ImportExportSummary(ts).exports,
      balance |-> ImportExportSummary(ts).net]

(***************************************************************************)
(* The state machine: one customer held by the system, the operations of   *)
(* its public interface, and the clock.  last is the latest call with the  *)
(* value it returned; episode[i] records what the caller has seen of       *)
(* customer i: no reminder yet ("fresh"), a first reminder with no         *)
(* successful payment since ("reminded"), a successful payment after a     *)
(* reminder ("paid"), or a reminder that followed such a payment, with no  *)
(* successful payment since ("reminded2").  listed[i] is the set of bills  *)
(* of customer i, by position, that some reminder has enumerated.  The     *)
(* province index and the trade log are those of the system; the           *)
(* operations on one customer leave them alone.                            *)
(***************************************************************************)
Call(op, ok, text) == [op |-> op, ok |-> ok, text |-> text]

Reminded(e) == IF e = "fresh" THEN "reminded" ELSE "reminded2"

Init ==
  /\ \E type \in BillTypes, alloc \in Allocs :
       customers = <<Customer(1001, "John Smith", "Ontario", "jsmith@email.com",
                              "100 Howard Ave, Ontario", type, alloc)>>
  /\ provinces = addCustomer(<<>>, <<>>, customers[1]).provinces
  /\ trades = <<>>
  /\ now = 0
  /\ last = Call("none", TRUE, <<>>)
  /\ episode = <<"fresh">>
  /\ listed = <<{}>>

UseEnergy(i, amt) ==
  /\ last' = Call("useEnergy", useEnergy(customers[i], amt).ret, <<>>)
  /\ customers' = [customers EXCEPT ![i] = useEnergy(@, amt).c]
  /\ UNCHANGED <<now, episode>>

CreateBill(i, rate) ==
  /\ Len(customers[i].payments) < MaxBills
  /\ last' = Call("createBill", TRUE, <<>>)
  /\ customers' = [customers EXCEPT ![i] = createBill(@, rate, now)]
  /\ UNCHANGED <<now, episode>>

MakePayment(i, index, amt) ==
  /\ last' = Call("makePayment", makePayment(customers[i], index, amt).ret, <<>>)
  /\ customers' = [customers EXCEPT ![i] = makePayment(@, index, amt).c]
  /\ episode' = [episode EXCEPT ![i] =
                   IF makePayment(customers[i], index, amt).ret /\ @ # "fresh"
                     THEN "paid" ELSE @]
  /\ UNCHANGED now

AddMaintenance(i, desc, cost) ==
  /\ Len(customers[i].maintenance) < MaxMaint
  /\ last' = Call("addMaintenance", TRUE, <<>>)
  /\ customers' = [customers EXCEPT ![i] = addMaintenance(@, desc, cost, now)]
  /\ UNCHANGED <<now, episode>>

SendReminder(i) ==
  /\ last' = Call("sendReminder", TRUE, sendReminder(customers[i], now).ret)
  /\ customers' = [customers EXCEPT ![i] = sendReminder(@, now).c]
  /\ episode' = [episode EXCEPT ![i] =
                   IF sendReminder(customers[i], now).ret # <<>>
                     THEN Reminded(@) ELSE @]
  /\ UNCHANGED now

DoBilling ==
  /\ \A i \in Billed(customers) : Len(customers[i].payments) < MaxBills
  /\ last' = Call("doBilling", TRUE, <<>>)
  /\ customers' = doBilling(customers, now)
  /\ UNCHANGED <<now, episode>>

SendReminders ==
  /\ last' = Call("sendReminders", TRUE, sendReminders(customers, now).printed)
  /\ customers' = sendReminders(customers, now).cs
  /\ episode' = [i \in DOMAIN episode |->
                   IF sendReminder(customers[i], now).ret # <<>>
                     THEN Reminded(episode[i]) ELSE episode[i]]
  /\ UNCHANGED now

\* the wall clock moves on between calls
Tick(d) ==
  /\ now + d <= MaxDays * SecondsPerDay
  /\ now' = now + d
  /\ UNCHANGED <<customers, last, episode>>

\* what the operations on the customers leave alone
systemVars == <<provinces, trades, listed>>

Next ==
  \/ \E i \in DOMAIN customers, amt \in UseAmounts :
       UseEnergy(i, amt) /\ UNCHANGED systemVars
  \/ \E i \in DOMAIN customers, rate \in BillRates :
       CreateBill(i, rate) /\ UNCHANGED systemVars
  \/ \E i \in DOMAIN customers, index \in PayIndexes, amt \in PayAmounts :
       MakePayment(i, index, amt) /\ UNCHANGED systemVars
  \/ \E i \in DOMAIN customers :
       AddMaintenance(i, "Equipment check", 5000) /\ UNCHANGED systemVars
  \/ \E i \in DOMAIN customers : SendReminder(i) /\ UNCHANGED systemVars
  \/ DoBilling /\ UNCHANGED systemVars
  \/ SendReminders /\ UNCHANGED systemVars
  \/ \E d \in ClockSteps : Tick(d) /\ UNCHANGED systemVars

Spec == Init /\ [][Next]_vars

(***************************************************************************)
(* The same customer with listed kept up to date: a reminder adds the      *)
(* bills it enumerates, which are the overdue ones.                        *)
(***************************************************************************)
Enumerated(c, t) ==
  IF sendReminder(c, t).ret = <<>> THEN {}
  ELSE {k \in 1 .. Len(c.payments) : isOverdue(c.payments[k], t)}

SendReminderListed(i) ==
  /\ SendReminder(i)
  /\ listed' = [listed EXCEPT ![i] = @ \cup Enumerated(customers[i], now)]
  /\ UNCHANGED <<provinces, trades>>

SendRemindersListed ==
  /\ SendReminders
  /\ listed' = [i \in DOMAIN listed |->
                  listed[i] \cup Enumerated(customers[i], now)]
  /\ UNCHANGED <<provinces, trades>>

NextListed ==
  \/ \E i \in DOMAIN customers, amt \in UseAmounts :
       UseEnergy(i, amt) /\ UNCHANGED systemVars
  \/ \E i \in DOMAIN customers, rate \in BillRates :
       CreateBill(i, rate) /\ UNCHANGED systemVars
  \/ \E i \in DOMAIN customers, index \in PayIndexes, amt \in PayAmounts :
       MakePayment(i, index, amt) /\ UNCHANGED systemVars
  \/ \E i \in DOMAIN customers : SendReminderListed(i)
  \/ SendRemindersListed
  \/ \E d \in ClockSteps : Tick(d) /\ UNCHANGED systemVars

SpecListed == Init /\ [][NextListed]_vars

(***************************************************************************)
(* The directory: customers are added from a roster, each at most once,    *)
(* and used, billed, paid and queried through the system.                  *)
(***************************************************************************)
MaxCustomers == 2

Roster ==
  {Customer(1001, "John Smith", "Ontario", "jsmith@email.com",
            "100 Howard Ave, Ontario", "SOLAR", 1),
   Customer(1002, "Jane Jones", "Quebec", "jjones@email.com",
            "200 Walker Rd, Quebec", "NUCLEAR", 1)}

DirClockSteps == {OverdueDays * SecondsPerDay, (OverdueDays + 1) * SecondsPerDay}

InitDir ==
  /\ customers = <<>>
  /\ provinces = <<>>
  /\ trades = <<>>
  /\ now = 0
  /\ last = Call("none", TRUE, <<>>)
  /\ episode = <<>>
  /\ listed = <<>>

AddCustomer(c) ==
  /\ Len(customers) < MaxCustomers
  /\ last' = Call("addCustomer", TRUE, <<>>)
  /\ customers' = addCustomer(customers, provinces, c).customers
  /\ provinces' = addCustomer(customers, provinces, c).provinces
  /\ episode' = Append(episode, "fresh")
  /\ listed' = Append(listed, {})
  /\ UNCHANGED <<now, trades>>

GetOverdueCustomers ==
  /\ last' = Call("getOverdueCustomers", TRUE, getOverdueCustomers(customers, now))
  /\ UNCHANGED <<customers, provinces, trades, now, episode, listed>>

NextDir ==
  \/ \E c \in Roster :
       /\ \A i \in DOMAIN customers : customers[i].id # c.id
       /\ AddCustomer(c)
  \/ \E i \in DOMAIN customers, amt \in UseAmounts :
       UseEnergy(i, amt) /\ UNCHANGED systemVars
  \/ \E i \in DOMAIN customers, index \in PayIndexes, amt \in PayAmounts :
       MakePayment(i, index, amt) /\ UNCHANGED systemVars
  \/ (\A i \in Billed(customers) : Len(customers[i].payments) < MaxBills - 1)
       /\ DoBilling /\ UNCHANGED systemVars
  \/ GetOverdueCustomers
  \/ \E d \in DirClockSteps : Tick(d) /\ UNCHANGED systemVars

SpecDir == InitDir /\ [][NextDir]_vars

(***************************************************************************)
(* The province index: any customer of the roster may be added, any number *)
(* of times, between the other operations of the system.                   *)
(***************************************************************************)
NextIndex ==
  \/ \E c \in Roster : AddCustomer(c)
  \/ \E i \in DOMAIN customers, amt \in UseAmounts :
       UseEnergy(i, amt) /\ UNCHANGED systemVars
  \/ (\A i \in Billed(customers) : Len(customers[i].payments) < MaxBills - 1)
       /\ DoBilling /\ UNCHANGED systemVars
  \/ SendReminders /\ UNCHANGED systemVars
  \/ GetOverdueCustomers

SpecIndex == InitDir /\ [][NextIndex]_vars

(***************************************************************************)
(* Search: the customers carry their name and e-mail address as sequences  *)
(* of characters, built as createTestData builds them (first name, space,  *)
(* last name; first initial and last name in lower case, "@email.com").    *)
(***************************************************************************)
FindRoster ==
  {Customer(1001, <<"J", "o", "h", "n", " ", "S", "m", "i", "t", "h">>, "Ontario",
            <<"j", "s", "m", "i", "t", "h", "@", "e", "m", "a", "i", "l", ".", "c", "o", "m">>,
            "100 Howard Ave, Ontario", "SOLAR", 1),
   Customer(1002, <<"J", "a", "n", "e", " ", "J", "o", "n", "e", "s">>, "Quebec",
            <<"j", "j", "o", "n", "e", "s", "@", "e", "m", "a", "i", "l", ".", "c", "o", "m">>,
            "200 Walker Rd, Quebec", "NUCLEAR", 1),
   Customer(1003, <<"M", "i", "k", "e", " ", "S", "m", "i", "t", "h">>, "Quebec",
            <<"m", "s", "m", "i", "t", "h", "@", "e", "m", "a", "i", "l", ".", "c", "o", "m">>,
            "300 Lauzon Rd, Quebec", "SOLAR", 1)}

Queries ==
  {<<>>, <<"S", "m", "i", "t", "h">>, <<"s", "m", "i", "t", "h">>, <<"a">>,
   <<"J", "o", "n", "e", "s">>, <<"1", "0", "0">>, <<"1", "0", "0", "2">>, <<"x">>}

Provs == {"", "Ontario", "Quebec", "Alberta"}

FindCustomers(query, prov) ==
  /\ last' = Call("findCustomers", TRUE, findCustomers(customers, query, prov))
  /\ UNCHANGED <<customers, provinces, trades, now, episode, listed>>

NextFind ==
  \/ \E c \in FindRoster : AddCustomer(c)
  \/ \E i \in DOMAIN customers, amt \in UseAmounts :
       UseEnergy(i, amt) /\ UNCHANGED systemVars
  \/ \E query \in Queries, prov \in Provs : FindCustomers(query, prov)

SpecFind == InitDir /\ [][NextFind]_vars

(***************************************************************************)
(* The trade log: trades are recorded one by one and the monthly report    *)
(* summarises them.  last.text holds the sections of the report: the       *)
(* import/export summary, the overall statistics and the statistics by     *)
(* province.                                                               *)
(***************************************************************************)
MaxTrades == 2

TradeTypes == {"CRUDE_OIL", "SOLAR"}
TradeQuantities == {500, 1000}
TradePrices == {100, 18}

AddTrade(type, q, p, imp) ==
  /\ Len(trades) < MaxTrades
  /\ last' = Call("addTrade", TRUE, <<>>)
  /\ trades' = Append(trades, ImportExport(type, q, p, imp, now))
  /\ UNCHANGED <<customers, provinces, now, episode, listed>>

CreateMonthlyReport ==
  /\ last' = Call("createMonthlyReport", TRUE,
                  <<ImportExportSummary(trades),
                    OverallStats(customers, now),
                    ProvinceStats(customers, provinces, now)>>)
  /\ UNCHANGED <<customers, provinces, trades, now, episode, listed>>

NextTrade ==
  \/ \E type \in TradeTypes, q \in TradeQuantities, p \in TradePrices, imp \in BOOLEAN :
       AddTrade(type, q, p, imp)
  \/ CreateMonthlyReport

SpecTrade == InitDir /\ [][NextTrade]_vars

(***************************************************************************)
(* One customer whose usage is recorded with amounts of either sign.  A    *)
(* negative amount always passes the admission test of useEnergy, so the   *)
(* exploration stops at MaxCredit units below zero.                        *)
(***************************************************************************)
MaxCredit == 1

SignedUseAmounts == {0 - 1, 0, 1}

NextSigned ==
  \/ \E i \in DOMAIN customers, amt \in SignedUseAmounts :
       /\ customers[i].used + amt >= 0 - MaxCredit
       /\ UseEnergy(i, amt) /\ UNCHANGED systemVars
  \/ \E i \in DOMAIN customers, rate \in BillRates :
       CreateBill(i, rate) /\ UNCHANGED systemVars
  \/ \E i \in DOMAIN customers, index \in PayIndexes, amt \in PayAmounts :
       MakePayment(i, index, amt) /\ UNCHANGED systemVars

SpecSigned == Init /\ [][NextSigned]_vars

(***************************************************************************)
(* Reminder runs over the directory, in the form of either source file;    *)
(* the customers can also be reminded one by one.                          *)
(***************************************************************************)
SendRemindersGuarded ==
  /\ last' = Call("sendReminders", TRUE, sendRemindersGuarded(customers, now).printed)
  /\ customers' = sendRemindersGuarded(customers, now).cs
  /\ episode' = [i \in DOMAIN episode |->
                   IF hasOverdue(customers[i], now)
                        /\ sendReminder(customers[i], now).ret # <<>>
                     THEN Reminded(episode[i]) ELSE episode[i]]
  /\ UNCHANGED now

NextRemind ==
  \/ \E c \in Roster :
       /\ \A i \in DOMAIN customers : customers[i].id # c.id
       /\ AddCustomer(c)
  \/ \E i \in DOMAIN customers, amt \in UseAmounts :
       UseEnergy(i, amt) /\ UNCHANGED systemVars
  \/ \E i \in DOMAIN customers, index \in PayIndexes, amt \in PayAmounts :
       MakePayment(i, index, amt) /\ UNCHANGED systemVars
  \/ (\A i \in Billed(customers) : Len(customers[i].payments) < MaxBills - 1)
       /\ DoBilling /\ UNCHANGED systemVars
  \/ \E i \in DOMAIN customers : SendReminder(i) /\ UNCHANGED systemVars
  \/ SendReminders /\ UNCHANGED systemVars
  \/ SendRemindersGuarded /\ UNCHANGED systemVars
  \/ \E d \in DirClockSteps : Tick(d) /\ UNCHANGED systemVars

SpecRemind == InitDir /\ [][NextRemind]_vars

(***************************************************************************)
(* The monthly report over a directory of customers of two provinces, who  *)
(* use energy, are billed and pay their first bill in full, as in          *)
(* createTestData.                                                         *)
(***************************************************************************)
ReportRoster ==
  Roster \cup {Customer(1003, "Mike Brown", "Ontario", "mbrown@email.com",
                        "300 Lauzon Rd, Ontario", "NUCLEAR", 1)}

NextReport ==
  \/ \E c \in ReportRoster :
       /\ \A i \in DOMAIN customers : customers[i].id # c.id
       /\ AddCustomer(c)
  \/ \E i \in DOMAIN customers, amt \in UseAmounts \ {0} :
       UseEnergy(i, amt) /\ UNCHANGED systemVars
  \/ \E i \in DOMAIN customers :
       MakePayment(i, 0, getTotalOwed(customers[i])) /\ UNCHANGED systemVars
  \/ (\A i \in Billed(customers) : Len(customers[i].payments) < MaxBills - 1)
       /\ DoBilling /\ UNCHANGED systemVars
  \/ CreateMonthlyReport
  \/ \E d \in {(OverdueDays + 1) * SecondsPerDay} : Tick(d) /\ UNCHANGED systemVars

SpecReport == InitDir /\ [][NextReport]_vars

(***************************************************************************)
(* Statistics from the empty directory on: one of the customers that can   *)
(* be added has an allocation of 0.                                        *)
(***************************************************************************)
StatsRoster ==
  {Customer(1001, "John Smith", "Ontario", "jsmith@email.com",
            "100 Howard Ave, Ontario", "SOLAR", 1),
   Customer(1004, "Emily Jones", "Alberta", "ejones@email.com",
            "400 Dougall Ave, Alberta", "SOLAR", 0)}

ShowStats ==
  /\ last' = Call("showStats", TRUE, <<showStats(customers, provinces, trades, now)>>)
  /\ UNCHANGED <<customers, provinces, trades, now, episode, listed>>

NextStats ==
  \/ \E c \in StatsRoster :
       /\ \A i \in DOMAIN customers : customers[i].id # c.id
       /\ AddCustomer(c)
  \/ \E i \in DOMAIN customers, amt \in UseAmounts :
       UseEnergy(i, amt) /\ UNCHANGED systemVars
  \/ (\A i \in Billed(customers) : Len(customers[i].payments) < MaxBills - 1)
       /\ DoBilling /\ UNCHANGED systemVars
  \/ CreateMonthlyReport
  \/ ShowStats
  \/ \E d \in DirClockSteps : Tick(d) /\ UNCHANGED systemVars

SpecStats == InitDir /\ [][NextStats]_vars

TypeOK ==
  /\ now \in 0 .. MaxDays * SecondsPerDay
  /\ Len(customers) = 1
  /\ \A i \in DOMAIN customers :
       /\ customers[i].used \in 0 .. customers[i].allocated
       /\ Len(customers[i].payments) <= MaxBills

(***************************************************************************)
(* Properties                                                              *)
(***************************************************************************)
Bills(i) == customers[i].payments
DaysAgo(n) == now - n * SecondsPerDay

\* C1: whatever useEnergy, createBill and makePayment calls have been made
\* on a customer constructed with used = 0, used never exceeds allocated.
C1_UsedWithinAllocation ==
  \A i \in DOMAIN customers : customers[i].used <= customers[i].allocated

\* a call asking for more than what is left was made on a customer that has
\* used all of its allocation
C1_Witness ==
  /\ last.op = "useEnergy" /\ ~last.ok
  /\ customers[1].used = customers[1].allocated

\* C2: createBill(rate) appends exactly one bill at the end of the bill
\* sequence, unpaid and of amount (used before the call) * rate, and leaves
\* used = 0, also when used was 0.
C2_CreateBillAppends ==
  [][\A i \in DOMAIN customers, rate \in BillRates :
       CreateBill(i, rate) =>
         /\ Len(Bills(i)') = Len(Bills(i)) + 1
         /\ SubSeq(Bills(i)', 1, Len(Bills(i))) = Bills(i)
         /\ Bills(i)'[Len(Bills(i)')].amount = customers[i].used * rate
         /\ Bills(i)'[Len(Bills(i)')].isPaid = FALSE
         /\ customers'[i].used = 0]_vars

\* a bill for all of the allocation followed by a bill made with used = 0
C2_Witness ==
  /\ last.op = "createBill"
  /\ Len(Bills(1)) = 2
  /\ Bills(1)[1].amount = customers[1].allocated * rates[customers[1].energyType]
  /\ Bills(1)[2].amount = 0
  /\ customers[1].used = 0

\* C3: for an index within bounds makePayment(index, amt) returns true iff
\* amt >= the bill's amount; on success the bill is paid, and on failure its
\* paid flag is what it was (an unpaid bill stays unpaid).
C3_PaymentThreshold ==
  [][\A i \in DOMAIN customers, index \in PayIndexes, amt \in PayAmounts :
       (index >= 0 /\ index < Len(Bills(i)) /\ MakePayment(i, index, amt)) =>
         /\ last'.ok <=> amt >= Bills(i)[index + 1].amount
         /\ last'.ok => Bills(i)'[index + 1].isPaid
         /\ ~last'.ok => Bills(i)'[index + 1].isPaid = Bills(i)[index + 1].isPaid]_vars

\* a payment succeeded on the first bill, the second is still unpaid
C3_Witness ==
  /\ last.op = "makePayment" /\ last.ok
  /\ Len(Bills(1)) = 2
  /\ Bills(1)[1].isPaid /\ Bills(1)[1].amount > 0
  /\ ~Bills(1)[2].isPaid /\ Bills(1)[2].amount > 0

\* C4: a bill is unpaid when it is created, and a paid bill stays paid
\* through every operation.
C4_PaidIsForever ==
  [][\A i \in DOMAIN customers :
       /\ \A k \in 1 .. Len(Bills(i)) :
            Bills(i)[k].isPaid => (k <= Len(Bills(i)') /\ Bills(i)'[k].isPaid)
       /\ \A k \in (Len(Bills(i)) + 1) .. Len(Bills(i)') :
            ~Bills(i)'[k].isPaid]_vars

\* a billing run added an unpaid bill after the first bill had been paid
C4_Witness ==
  /\ last.op = "doBilling"
  /\ Len(Bills(1)) = 2
  /\ Bills(1)[1].isPaid
  /\ ~Bills(1)[2].isPaid /\ Bills(1)[2].date > Bills(1)[1].date

\* C5: a bill is overdue iff it is unpaid and at least 31 whole days old,
\* that is floor(seconds since the bill / 86400) > 30.
C5_OverdueThreshold ==
  \A i \in DOMAIN customers : \A k \in 1 .. Len(Bills(i)) :
    isOverdue(Bills(i)[k], now) <=>
      (~Bills(i)[k].isPaid /\ Bills(i)[k].date <= DaysAgo(OverdueDays + 1))

\* at 31 days the unpaid bill is overdue and the paid one is not
C5_Witness ==
  /\ Len(Bills(1)) = 2
  /\ Bills(1)[1].date = DaysAgo(31) /\ Bills(1)[1].isPaid
  /\ Bills(1)[2].date = DaysAgo(31) /\ ~Bills(1)[2].isPaid
  /\ ~isOverdue(Bills(1)[1], now) /\ isOverdue(Bills(1)[2], now)

\* C6: once sendReminder has returned a non-empty text, every later
\* sendReminder on that customer returns the empty text until a makePayment
\* succeeds, whatever other calls and clock advances come in between.
C6_OneReminderUntilPaid ==
  [][\A i \in DOMAIN customers :
       (episode[i] \in {"reminded", "reminded2"} /\ SendReminder(i)) =>
         last'.text = <<>>]_vars

\* a second call on a reminded customer that is still overdue gave no text
C6_Witness ==
  /\ episode[1] = "reminded"
  /\ last.op = "sendReminder" /\ last.text = <<>>
  /\ hasOverdue(customers[1], now)
  /\ \A k \in 1 .. Len(Bills(1)) : ~Bills(1)[k].isPaid

\* C7: after a reminder and then a successful payment, a customer that has
\* an overdue bill gets a non-empty reminder from the next sendReminder, and
\* only from that one: the calls after it return the empty text as long as
\* no payment succeeds.
C7_RemindedAgainOnce ==
  [][\A i \in DOMAIN customers :
       /\ (episode[i] = "paid" /\ hasOverdue(customers[i], now) /\ SendReminder(i)) =>
            (last'.text # <<>> /\ episode'[i] = "reminded2")
       /\ (episode[i] = "reminded2" /\ SendReminder(i)) =>
            (last'.text = <<>> /\ episode'[i] = "reminded2")]_vars

\* the call after the second reminder, on a customer still overdue
C7_Witness ==
  /\ episode[1] = "reminded2"
  /\ last.op = "sendReminder" /\ last.text = <<>>
  /\ hasOverdue(customers[1], now)

\* C8: useEnergy(amt) returns false exactly when amt > allocated - used; a
\* rejected call changes nothing and an accepted call adds amt to used and
\* changes nothing else.
C8_UseEnergyAdmission ==
  [][\A i \in DOMAIN customers, amt \in UseAmounts :
       UseEnergy(i, amt) =>
         /\ ~last'.ok <=> amt > customers[i].allocated - customers[i].used
         /\ ~last'.ok => customers' = customers
         /\ last'.ok =>
              customers' = [customers EXCEPT ![i].used = customers[i].used + amt]]_vars

\* a call was rejected on a customer with nothing used, some bill, a
\* maintenance record and the reminder latch set
C8_Witness ==
  /\ last.op = "useEnergy" /\ ~last.ok
  /\ customers[1].used = 0
  /\ Len(Bills(1)) > 0
  /\ Len(customers[1].maintenance) > 0
  /\ customers[1].reminderSent

\* C9: makePayment with an index out of range or an amount below the bill's
\* returns false and changes nothing of the customer.
C9_FailedPaymentNoChange ==
  [][\A i \in DOMAIN customers, index \in PayIndexes, amt \in PayAmounts :
       (/\ \/ index < 0
           \/ index >= Len(Bills(i))
           \/ amt < Bills(i)[index + 1].amount
        /\ MakePayment(i, index, amt)) =>
         (~last'.ok /\ customers' = customers)]_vars

\* a payment failed on a reminded customer that has a paid and an unpaid bill
C9_Witness ==
  /\ last.op = "makePayment" /\ ~last.ok
  /\ customers[1].reminderSent
  /\ Len(Bills(1)) = 2
  /\ Bills(1)[1].isPaid /\ ~Bills(1)[2].isPaid

\* C10: the bill sequence only grows at its end; a bill keeps its position,
\* amount and date, and only a successful makePayment changes a bill, by
\* setting isPaid.
C10_BillsAppendOnly ==
  [][\A i \in DOMAIN customers :
       /\ Len(Bills(i)') >= Len(Bills(i))
       /\ \A k \in 1 .. Len(Bills(i)) :
            /\ Bills(i)'[k].amount = Bills(i)[k].amount
            /\ Bills(i)'[k].date = Bills(i)[k].date
            /\ Bills(i)'[k] # Bills(i)[k] =>
                 /\ last'.op = "makePayment" /\ last'.ok
                 /\ Bills(i)'[k] = [Bills(i)[k] EXCEPT !.isPaid = TRUE]]_vars

\* a bill was appended behind an older, paid bill of another amount
C10_Witness ==
  /\ last.op = "createBill"
  /\ Len(Bills(1)) = 2
  /\ Bills(1)[1].isPaid
  /\ Bills(1)[1].amount # Bills(1)[2].amount
  /\ Bills(1)[1].date < Bills(1)[2].date

\* the bills of customer i, by position, that are unpaid and at least 31
\* whole days old
OldUnpaid(i) ==
  {k \in 1 .. Len(Bills(i)) :
     ~Bills(i)[k].isPaid /\ Bills(i)[k].date <= DaysAgo(OverdueDays + 1)}

\* the bill lines of a reminder text: what is between heading and closing
BillLines(text) == SubSeq(text, 2, Len(text) - 1)

\* C11: sendReminder returns a non-empty text iff the customer has an
\* overdue bill and reminderSent is false; it then sets reminderSent and
\* lists exactly the overdue bills, in order, each with its amount and
\* daysSince - 30 >= 1 days overdue; when the text is empty nothing changes.
C11_ReminderContract ==
  [][\A i \in DOMAIN customers :
       SendReminder(i) =>
         /\ last'.text # <<>> <=> (OldUnpaid(i) # {} /\ ~customers[i].reminderSent)
         /\ last'.text = <<>> => customers' = customers
         /\ last'.text # <<>> =>
              /\ customers' = [customers EXCEPT ![i].reminderSent = TRUE]
              /\ Len(BillLines(last'.text)) = Cardinality(OldUnpaid(i))
              /\ \A k \in OldUnpaid(i) :
                   LET line == BillLines(last'.text)[Cardinality({j \in OldUnpaid(i) : j <= k})]
                   IN /\ line.amount = Bills(i)[k].amount
                      /\ line.date = Bills(i)[k].date
                      /\ line.daysOverdue =
                           ((now - Bills(i)[k].date) \div SecondsPerDay) - OverdueDays
                      /\ line.daysOverdue >= 1]_vars

\* a reminder listing one bill, 1 day overdue, of a customer whose other
\* bill is unpaid but not overdue
C11_Witness ==
  /\ last.op = "sendReminder"
  /\ Len(last.text) = 3
  /\ last.text[2].daysOverdue = 1
  /\ last.text[2].amount = Bills(1)[1].amount
  /\ Len(Bills(1)) = 2
  /\ ~Bills(1)[2].isPaid /\ ~isOverdue(Bills(1)[2], now)
  /\ customers[1].reminderSent

\* C12: a bill that stays unpaid is enumerated in at most one non-empty
\* reminder: no reminder enumerates a bill that an earlier one enumerated.
C12_BillListedOnce ==
  [][\A i \in DOMAIN customers :
       (SendReminder(i) /\ last'.text # <<>>) =>
         \A k \in listed[i] : ~isOverdue(Bills(i)[k], now)]_vars

\* the sum of amount over the bills of c at the positions in K
SumAmounts(c, K) ==
  LET S[n \in 1 .. Len(c.payments) + 1] ==
        IF n > Len(c.payments) THEN 0
        ELSE (IF n \in K THEN c.payments[n].amount ELSE 0) + S[n + 1]
  IN S[1]

Unpaid(c) == {k \in 1 .. Len(c.payments) : ~c.payments[k].isPaid}

\* the bills of customer i, by position, that the step turns from unpaid to paid
NewlyPaid(i) == {k \in 1 .. Len(Bills(i)) : ~Bills(i)[k].isPaid /\ Bills(i)'[k].isPaid}

\* C13: getTotalOwed is the sum of amount over the unpaid bills; createBill
\* raises it by the new bill's amount, a successful makePayment on an unpaid
\* bill lowers it by that bill's amount, and a successful makePayment on a
\* paid bill or a failed makePayment leaves it as it is.
C13_TotalOwed ==
  [][\A i \in DOMAIN customers :
       LET owed == getTotalOwed(customers[i])
           owedAfter == getTotalOwed(customers'[i])
       IN /\ owedAfter = SumAmounts(customers'[i], Unpaid(customers'[i]))
          /\ \A rate \in BillRates :
               CreateBill(i, rate) => owedAfter = owed + customers[i].used * rate
          /\ (\E index \in PayIndexes, amt \in PayAmounts : MakePayment(i, index, amt)) =>
               /\ Cardinality(NewlyPaid(i)) <= 1
               /\ ~last'.ok => NewlyPaid(i) = {}
               /\ owedAfter = owed - SumAmounts(customers[i], NewlyPaid(i))]_vars

\* the first of two bills of the same amount has just been paid
C13_Witness ==
  /\ last.op = "makePayment" /\ last.ok
  /\ Len(Bills(1)) = 2
  /\ Bills(1)[1].isPaid /\ ~Bills(1)[2].isPaid
  /\ Bills(1)[1].amount > 0 /\ Bills(1)[2].amount = Bills(1)[1].amount
  /\ getTotalOwed(customers[1]) = Bills(1)[2].amount

\* C14: doBilling appends exactly one bill to every customer whose used is
\* positive, of amount used times the rate of the customer's energy type,
\* dated now and unpaid, and resets that customer's used to 0; a customer
\* whose used is 0 is left exactly as it was, so no bill of amount 0 is made.
C14_BillingCycle ==
  [][DoBilling =>
       /\ Len(customers') = Len(customers)
       /\ \A i \in DOMAIN customers :
            IF customers[i].used > 0
              THEN /\ Bills(i)' = Append(Bills(i),
                                         [amount |-> customers[i].used
                                                       * rates[customers[i].energyType],
                                          date |-> now, isPaid |-> FALSE])
                   /\ Bills(i)'[Len(Bills(i)')].amount > 0
                   /\ customers'[i] = [customers[i] EXCEPT !.payments = Bills(i)',
                                                           !.used = 0]
              ELSE customers'[i] = customers[i]]_vars

\* a billing run has just billed the nuclear customer and skipped the solar
\* customer, who had used nothing
C14_Witness ==
  /\ last.op = "doBilling"
  /\ Len(customers) = 2
  /\ \E i, j \in DOMAIN customers :
       /\ customers[i].energyType = "NUCLEAR"
       /\ Len(Bills(i)) = 1
       /\ Bills(i)[1] = [amount |-> 22, date |-> now, isPaid |-> FALSE]
       /\ customers[i].used = 0
       /\ customers[j].energyType = "SOLAR"
       /\ Bills(j) = <<>>
       /\ customers[j].used = 0

\* what a customer is known by: the fields that no operation writes
Identity(c) == <<c.id, c.name, c.province, c.email, c.address, c.energyType>>

\* the entries of the province index that hold position pos
EntriesOf(pos) ==
  {e \in UNION {{<<p, k>> : k \in DOMAIN provinces[p]} : p \in DOMAIN provinces} :
     provinces[e[1]][e[2]] = pos}

IndexConsistent ==
  /\ \A p \in DOMAIN provinces : \A k \in DOMAIN provinces[p] :
       /\ provinces[p][k] \in 0 .. Len(customers) - 1
       /\ customers[provinces[p][k] + 1].province = p
       /\ k > 1 => provinces[p][k - 1] < provinces[p][k]
  /\ \A pos \in 0 .. Len(customers) - 1 : Cardinality(EntriesOf(pos)) = 1

\* C15: the buckets of provinces partition the positions 0 .. n-1 of
\* customers, position i lies in the bucket of customers[i]'s province, every
\* bucket is increasing, and no step removes a customer or moves one to
\* another position.
C15_ProvinceIndex ==
  /\ []IndexConsistent
  /\ [][/\ Len(customers') >= Len(customers)
        /\ \A i \in DOMAIN customers :
             Identity(customers'[i]) = Identity(customers[i])]_vars

\* two customers of one province, the first of them billed since
C15_Witness ==
  /\ Len(customers) = 2
  /\ customers[1].province = customers[2].province
  /\ provinces[customers[1].province] = <<0, 1>>
  /\ Bills(1) # <<>>

\* q is a contiguous part of s
Occurs(q, s) ==
  \E a \in 0 .. Len(s) :
    /\ a + Len(q) <= Len(s)
    /\ \A k \in 1 .. Len(q) : s[a + k] = q[k]

\* r lists exactly the positions in M, each once, in increasing order
ListsInOrder(r, M) ==
  /\ {r[k] : k \in DOMAIN r} = M
  /\ \A k \in DOMAIN r : k > 1 => r[k - 1] < r[k]

Matching(query, prov) ==
  {i \in DOMAIN customers :
     /\ prov = "" \/ customers[i].province = prov
     /\ \/ Occurs(query, to_string(customers[i].id))
        \/ Occurs(query, customers[i].name)
        \/ Occurs(query, customers[i].email)}

\* C16: findCustomers(query, prov) returns exactly the customers whose
\* province is prov, or any customer if prov is empty, and whose decimal ID,
\* name or e-mail address contains query as written, each once and in the
\* order they were added; the call changes nothing in the system.
C16_FindCustomers ==
  [][/\ \A query \in Queries, prov \in Provs :
          FindCustomers(query, prov) =>
            ListsInOrder(last'.text, Matching(query, prov))
     /\ last'.op = "findCustomers" =>
          UNCHANGED <<customers, provinces, trades>>]_vars

\* of two Smiths, the search for "Smith" in Quebec returned the second only
C16_Witness ==
  /\ last.op = "findCustomers"
  /\ last.text = <<2>>
  /\ findCustomers(customers, <<"S", "m", "i", "t", "h">>, "Quebec") = <<2>>
  /\ findCustomers(customers, <<"S", "m", "i", "t", "h">>, "") = <<1, 2>>
  /\ customers[1].used > 0

\* the queries that are part of the name of some customer of the roster
NameFragments ==
  {q \in Queries : q # <<>> /\ \E c \in FindRoster : Occurs(q, c.name)}

NameHas(q) == {i \in DOMAIN customers : Occurs(q, customers[i].name)}

InProvince(p) == {i \in DOMAIN customers : customers[i].province = p}

\* C17 as stated: findCustomers(q, "") with a name fragment q returns exactly
\* the customers whose name contains q, and findCustomers("", p) exactly the
\* customers of province p.
C17_NameFragmentOnly ==
  [][/\ \A q \in NameFragments :
          FindCustomers(q, "") => ListsInOrder(last'.text, NameHas(q))
     /\ \A p \in Provs \ {""} :
          FindCustomers(<<>>, p) => ListsInOrder(last'.text, InProvince(p))]_vars

\* C17, amended: findCustomers(q, "") with a name fragment q returns exactly
\* the customers whose name, e-mail address or decimal ID contains q, whatever
\* their province, which are the customers whose name contains q when q is
\* part of no customer's e-mail address or ID; findCustomers("", p) with a
\* province p returns exactly the customers of province p.
C17_NameFragmentAnyField ==
  [][/\ \A q \in NameFragments :
          FindCustomers(q, "") =>
            /\ ListsInOrder(last'.text,
                            {i \in DOMAIN customers :
                               \/ Occurs(q, customers[i].name)
                               \/ Occurs(q, customers[i].email)
                               \/ Occurs(q, to_string(customers[i].id))})
            /\ (\A i \in DOMAIN customers :
                   /\ ~Occurs(q, customers[i].email)
                   /\ ~Occurs(q, to_string(customers[i].id)))
                 => ListsInOrder(last'.text, NameHas(q))
     /\ \A p \in Provs \ {""} :
          FindCustomers(<<>>, p) => ListsInOrder(last'.text, InProvince(p))]_vars

\* the search for "a" returned both customers, one of them for the "a" of
\* its e-mail address only
C17_Witness ==
  /\ last.op = "findCustomers"
  /\ Len(customers) = 2
  /\ last.text = <<1, 2>>
  /\ findCustomers(customers, <<"a">>, "") = <<1, 2>>
  /\ NameHas(<<"a">>) = {2}
  /\ customers[1].province # customers[2].province

\* the customers with an unpaid bill made more than 30 whole days ago
WithOldUnpaid ==
  {i \in DOMAIN customers :
     \E k \in DOMAIN Bills(i) :
       ~Bills(i)[k].isPaid /\ Bills(i)[k].date <= DaysAgo(OverdueDays + 1)}

\* C18: getOverdueCustomers returns exactly the customers for which
\* hasOverdue holds when it is called, that is those with an unpaid bill
\* more than 30 whole days old, each once and in the order they were added;
\* a customer whose old bills are all paid is not returned.
C18_OverdueCustomers ==
  [][GetOverdueCustomers =>
       /\ ListsInOrder(last'.text, WithOldUnpaid)
       /\ \A i \in DOMAIN customers :
            hasOverdue(customers[i], now) <=> \E k \in DOMAIN last'.text : last'.text[k] = i]_vars

\* both customers have a bill 31 days old; the first has paid, and the query
\* returned the second only
C18_Witness ==
  /\ last.op = "getOverdueCustomers"
  /\ Len(customers) = 2
  /\ \A i \in DOMAIN customers :
       Len(Bills(i)) = 1 /\ Bills(i)[1].date = DaysAgo(OverdueDays + 1)
  /\ Bills(1)[1].isPaid
  /\ ~Bills(2)[1].isPaid
  /\ last.text = <<2>>

\* the sum of quantity times price over the trades at the positions in K
RECURSIVE TradeValue(_)
TradeValue(K) ==
  IF K = {} THEN 0
  ELSE LET n == CHOOSE n \in K : TRUE
       IN trades[n].quantity * trades[n].price + TradeValue(K \ {n})

TradesOf(imp, types) ==
  {n \in DOMAIN trades : trades[n].isImport = imp /\ trades[n].type \in types}

RECURSIVE MapTotal(_, _)
MapTotal(m, K) ==
  IF K = {} THEN 0
  ELSE LET k == CHOOSE k \in K : TRUE IN m[k] + MapTotal(m, K \ {k})

\* C19: in the report, total imports is the sum of quantity times price over
\* the trades with isImport, total exports the same over the other trades,
\* the net balance is imports minus exports, and the imports (exports) by
\* energy type are the sums per type and add up to the total.
C19_ImportExportSummary ==
  [][CreateMonthlyReport =>
       LET r == last'.text[1]
       IN /\ r.imports = TradeValue(TradesOf(TRUE, EnergyType))
          /\ r.exports = TradeValue(TradesOf(FALSE, EnergyType))
          /\ r.net = r.imports - r.exports
          /\ \A type \in DOMAIN r.importsByType :
               r.importsByType[type] = TradeValue(TradesOf(TRUE, {type}))
          /\ \A type \in DOMAIN r.exportsByType :
               r.exportsByType[type] = TradeValue(TradesOf(FALSE, {type}))
          /\ MapTotal(r.importsByType, DOMAIN r.importsByType) = r.imports
          /\ MapTotal(r.exportsByType, DOMAIN r.exportsByType) = r.exports]_vars

\* the report on an import of 1000 units and an export of 500 units of
\* crude oil at $1.00 shows $1000.00, $500.00 and a net balance of $500.00
C19_Witness ==
  /\ last.op = "createMonthlyReport"
  /\ trades = <<ImportExport("CRUDE_OIL", 1000, 100, TRUE, 0),
                ImportExport("CRUDE_OIL", 500, 100, FALSE, 0)>>
  /\ last.text[1].imports = 100000
  /\ last.text[1].exports = 50000
  /\ last.text[1].net = 50000

\* C20: whatever useEnergy calls with amounts of either sign, createBill
\* calls with a positive rate and makePayment calls have been made, used is
\* not negative and no bill has a negative amount.
C20_NonNegative ==
  \A i \in DOMAIN customers :
    /\ customers[i].used >= 0
    /\ \A k \in DOMAIN Bills(i) : Bills(i)[k].amount >= 0

\* C21: a makePayment that returns true leaves reminderSent false, whichever
\* bill it pays: a bill that is not overdue, or one that is paid already,
\* also while another bill of the customer stays overdue and unpaid.
C21_AnyPaymentClearsLatch ==
  [][\A i \in DOMAIN customers :
       (last'.op = "makePayment" /\ last'.ok) =>
         \A index \in PayIndexes, amt \in PayAmounts :
           MakePayment(i, index, amt) =>
             /\ ~customers'[i].reminderSent
             /\ Bills(i)'[index + 1].isPaid
             /\ \A k \in DOMAIN Bills(i) :
                  k # index + 1 => Bills(i)'[k] = Bills(i)[k]]_vars

\* the customer was reminded of the first bill, which is still overdue and
\* unpaid; a payment on the second bill, which is not overdue, has since
\* succeeded and the latch is clear
C21_Witness ==
  /\ last.op = "makePayment" /\ last.ok
  /\ episode[1] = "paid"
  /\ Len(Bills(1)) = 2
  /\ isOverdue(Bills(1)[1], now) /\ ~Bills(1)[1].isPaid
  /\ Bills(1)[2].date > DaysAgo(OverdueDays + 1) /\ Bills(1)[2].isPaid
  /\ ~customers[1].reminderSent

\* the customers a reminder run finds overdue and not yet reminded
Due == {i \in DOMAIN customers :
          /\ \E k \in DOMAIN Bills(i) : isOverdue(Bills(i)[k], now)
          /\ ~customers[i].reminderSent}

\* the positions in S in increasing order
Ascending(S) ==
  CHOOSE r \in [1 .. Cardinality(S) -> S] :
    \A k \in DOMAIN r : k > 1 => r[k - 1] < r[k]

\* C22: sendReminders prints one line for each customer that has an overdue
\* bill and reminderSent false when the run starts, in the order the
\* customers were added, sets reminderSent on these customers and changes no
\* other customer; the run of the older source file, which asks hasOverdue
\* before it calls sendReminder, prints the same lines and leaves the same
\* customers in every reachable state.
C22_ReminderRun ==
  /\ [](sendRemindersGuarded(customers, now) = sendReminders(customers, now))
  /\ [][SendReminders =>
          /\ last'.text = [k \in 1 .. Cardinality(Due) |->
                             [name |-> customers[Ascending(Due)[k]].name,
                              id |-> customers[Ascending(Due)[k]].id]]
          /\ Len(customers') = Len(customers)
          /\ \A i \in DOMAIN customers :
               customers'[i] = IF i \in Due
                                 THEN [customers[i] EXCEPT !.reminderSent = TRUE]
                                 ELSE customers[i]]_vars

\* both customers have an overdue bill; the first had been reminded on its
\* own, and the run has printed a line for the second only
C22_Witness ==
  /\ last.op = "sendReminders"
  /\ Len(customers) = 2
  /\ \A i \in DOMAIN customers : hasOverdue(customers[i], now)
  /\ \A i \in DOMAIN customers : customers[i].reminderSent
  /\ episode = <<"reminded", "reminded">>
  /\ last.text = <<[name |-> customers[2].name, id |-> customers[2].id]>>

\* the customers of province prov
Living(prov) == {i \in DOMAIN customers : customers[i].province = prov}

\* C23: the province section of the report has an entry for exactly the
\* provinces that have a customer, with the number of its customers, the sum
\* of their allocated (which is the sum of what is left plus what is used),
\* of their used and of their getTotalOwed, and the number of them that have
\* an overdue bill, all as the state is at the call; over all provinces
\* these add up to the customer count, the total unpaid and the overdue
\* count of the overall section.
C23_ProvinceStatistics ==
  [][(last'.op = "createMonthlyReport" /\ CreateMonthlyReport) =>
       LET overall == last'.text[2]
           byProv == last'.text[3]
       IN /\ DOMAIN byProv = {customers[i].province : i \in DOMAIN customers}
          /\ \A prov \in DOMAIN byProv :
               LET M == Living(prov)
               IN /\ byProv[prov].customers = Cardinality(M)
                  /\ byProv[prov].customers >= 1
                  /\ byProv[prov].allocated =
                       MapTotal([i \in M |-> customers[i].allocated], M)
                  /\ byProv[prov].allocated =
                       MapTotal([i \in M |-> (customers[i].allocated - customers[i].used)
                                               + customers[i].used], M)
                  /\ byProv[prov].used = MapTotal([i \in M |-> customers[i].used], M)
                  /\ byProv[prov].unpaid =
                       MapTotal([i \in M |->
                                   SumAmounts(customers[i], Unpaid(customers[i]))], M)
                  /\ byProv[prov].overdue = Cardinality(M \cap WithOldUnpaid)
          /\ MapTotal([prov \in DOMAIN byProv |-> byProv[prov].customers],
                      DOMAIN byProv) = overall.customers
          /\ overall.customers = Len(customers)
          /\ MapTotal([prov \in DOMAIN byProv |-> byProv[prov].unpaid],
                      DOMAIN byProv) = overall.totalUnpaid
          /\ MapTotal([prov \in DOMAIN byProv |-> byProv[prov].overdue],
                      DOMAIN byProv) = overall.overdueCount]_vars

\* the report on two customers of Ontario, one with a paid bill and one
\* with an overdue bill, and usage not yet billed
C23_Witness ==
  /\ last.op = "createMonthlyReport"
  /\ Len(customers) = 2
  /\ DOMAIN last.text[3] = {"Ontario"}
  /\ last.text[3] = ProvinceStats(customers, provinces, now)
  /\ last.text[3]["Ontario"].customers = 2
  /\ last.text[3]["Ontario"].allocated = 2
  /\ last.text[3]["Ontario"].used = 1
  /\ last.text[3]["Ontario"].overdue = 1
  /\ last.text[3]["Ontario"].unpaid \in {18, 22}
  /\ \E i \in DOMAIN customers : Bills(i) # <<>> /\ Bills(i)[1].isPaid

\* a percentage that is the number 0
IsZeroPercent(p) == p.defined /\ p.num = 0

\* C24: with no customer in the system the overdue percentage of the monthly
\* report and of showStats is 0%, and for a province whose allocated total is
\* 0 the usage percentage of the report is 0%: no percentage is the outcome
\* of a division by zero.
C24_EmptyIsZeroPercent ==
  [][/\ (last'.op = "createMonthlyReport" /\ CreateMonthlyReport) =>
          /\ customers = <<>> => IsZeroPercent(last'.text[2].overduePercent)
          /\ \A prov \in DOMAIN last'.text[3] :
               last'.text[3][prov].allocated = 0 =>
                 IsZeroPercent(last'.text[3][prov].usedPercent)
     /\ (last'.op = "showStats" /\ ShowStats) =>
          (customers = <<>> => IsZeroPercent(last'.text[1].overduePercent))]_vars

\* C25: when doBilling returns no customer has used > 0; this stays so until
\* the next useEnergy, and a doBilling in such a state appends no bill and
\* changes nothing.
C25_BillingIdempotent ==
  [][/\ DoBilling =>
          /\ Billed(customers') = {}
          /\ doBilling(customers', now') = customers'
     /\ (/\ Billed(customers) = {}
         /\ ~\E i \in DOMAIN customers, amt \in UseAmounts : UseEnergy(i, amt))
          => Billed(customers') = {}
     /\ (Billed(customers) = {} /\ DoBilling) =>
          UNCHANGED <<customers, provinces, trades, now>>]_vars

\* every bill there is has been paid since the run that made it, nothing is
\* used, and the latest call is a billing run: it has billed nobody
C25_Witness ==
  /\ last.op = "doBilling"
  /\ Len(customers) = 2
  /\ \A i \in DOMAIN customers :
       /\ customers[i].used = 0
       /\ Len(Bills(i)) = 1
       /\ Bills(i)[1].isPaid

====
